---- MODULE Spec2Model ----
(***************************************************************************)
(* Model of the custom-hostname resource client (custom_hostname.go).      *)
(*                                                                         *)
(* A Go string is a sequence of tokens (a token is a piece of text that    *)
(* is never split: "/zones/", "z1", "&"), the empty string is <<>> and     *)
(* string concatenation is \o.  An error is the chain of its messages,     *)
(* outermost first; the nil error is the empty chain.  A JSON value is a   *)
(* record [t, v] with t its JSON type.                                     *)
(***************************************************************************)
EXTENDS Integers, Sequences, FiniteSets, TLC

VARIABLES op, args, reply, log, ret, err, wphase, wdone, wsrc, wval, wjson

vars == <<op, args, reply, log, ret, err, wphase, wdone, wsrc, wval, wjson>>

callVars == <<op, args, reply, log, ret, err>>

wireVars == <<wphase, wdone, wsrc, wval, wjson>>

(***************************************************************************)
(* Bounds                                                                  *)
(***************************************************************************)
\* largest page number a caller passes to List
MaxPage == 10

\* how many records more than one full page the largest server reply holds
MaxOverflow == 1

(***************************************************************************)
(* Strings and errors                                                      *)
(***************************************************************************)
Nil == <<>>

errMakeRequestError == "error from makeRequest"

errUnmarshalError == "error unmarshalling the JSON response"

\* errors.Wrap(err, message)
Wrap(e, message) == <<message>> \o e

\* errors.New(message)
NewError(message) == <<message>>

(***************************************************************************)
(* JSON values                                                             *)
(***************************************************************************)
JNull == [t |-> "null", v |-> <<>>]

JStr(s) == [t |-> "str", v |-> s]

JArr(a) == [t |-> "arr", v |-> a]

JObj(o) == [t |-> "obj", v |-> o]

JStrs(a) == JArr([i \in 1..Len(a) |-> JStr(a[i])])

\* one member of an object under construction; nothing when omitted
Member(present, key, value) == IF present THEN key :> value ELSE <<>>

(***************************************************************************)
(* The records and their zero values.  A string field is a token sequence, *)
(* a []string field a sequence of strings (a nil and an empty slice are    *)
(* both <<>>: json.Marshal omits both alike), the CustomMetadata map a     *)
(* function from keys to JSON values.                                      *)
(***************************************************************************)
ZeroSSLSettings == [HTTP2 |-> <<>>, TLS13 |-> <<>>, MinTLSVersion |-> <<>>, Ciphers |-> <<>>]

ZeroOwnershipVerification == [Type |-> <<>>, Name |-> <<>>, Value |-> <<>>]

ZeroSSL == [Status |-> <<>>, Method |-> <<>>, Type |-> <<>>, CnameTarget |-> <<>>,
            CnameName |-> <<>>, Settings |-> ZeroSSLSettings]

ZeroCustomHostname == [ID |-> <<>>, Hostname |-> <<>>, CustomOriginServer |-> <<>>,
                       SSL |-> ZeroSSL, CustomMetadata |-> <<>>, Status |-> <<>>,
                       VerificationErrors |-> <<>>,
                       OwnershipVerification |-> ZeroOwnershipVerification]

ZeroFallbackOrigin == [Origin |-> <<>>, Status |-> <<>>, Errors |-> <<>>]

ZeroResultInfo == [Page |-> 0, PerPage |-> 0, TotalPages |-> 0, Count |-> 0, TotalCount |-> 0]

(***************************************************************************)
(* strconv.Itoa and its inverse on JSON numbers                            *)
(***************************************************************************)
Digit(d) == <<"0", "1", "2", "3", "4", "5", "6", "7", "8", "9">>[d + 1]

RECURSIVE Digits(_)
Digits(n) == IF n < 10 THEN <<Digit(n)>> ELSE Append(Digits(n \div 10), Digit(n % 10))

\* strconv.Itoa(i)
Itoa(i) == IF i < 0 THEN <<"-">> \o Digits(0 - i) ELSE Digits(i)

DigitValue(c) == CHOOSE d \in 0..9 : Digit(d) = c

RECURSIVE NatOf(_)
NatOf(ds) == IF Len(ds) = 0 THEN 0
             ELSE 10 * NatOf(SubSeq(ds, 1, Len(ds) - 1)) + DigitValue(ds[Len(ds)])

\* the int a JSON number decodes to
Atoi(ds) == IF Len(ds) > 0 /\ ds[1] = "-" THEN 0 - NatOf(Tail(ds)) ELSE NatOf(ds)

JNum(i) == [t |-> "num", v |-> Itoa(i)]

(***************************************************************************)
(* encoding/json, encoding: the struct tags of lines 26-63 and 79-83.      *)
(* OmitEmpty is the emptiness test json.Marshal applies to a field tagged  *)
(* omitempty: false, 0, a nil pointer or interface, and any empty array,   *)
(* slice, map or string are empty; a struct value never is.                *)
(***************************************************************************)
OmitEmpty(kind, value) ==
    CASE kind = "string" -> Len(value) = 0
      [] kind = "slice"  -> Len(value) = 0
      [] kind = "map"    -> DOMAIN value = {}
      [] kind = "struct" -> FALSE

MarshalSSLSettings(s) ==
    JObj(Member(~OmitEmpty("string", s.HTTP2), "http2", JStr(s.HTTP2))
      @@ Member(~OmitEmpty("string", s.TLS13), "tls_1_3", JStr(s.TLS13))
      @@ Member(~OmitEmpty("string", s.MinTLSVersion), "min_tls_version", JStr(s.MinTLSVersion))
      @@ Member(~OmitEmpty("slice", s.Ciphers), "ciphers", JStrs(s.Ciphers)))

MarshalOwnershipVerification(o) ==
    JObj(Member(~OmitEmpty("string", o.Type), "type", JStr(o.Type))
      @@ Member(~OmitEmpty("string", o.Name), "name", JStr(o.Name))
      @@ Member(~OmitEmpty("string", o.Value), "value", JStr(o.Value)))

MarshalSSL(s) ==
    JObj(Member(~OmitEmpty("string", s.Status), "status", JStr(s.Status))
      @@ Member(~OmitEmpty("string", s.Method), "method", JStr(s.Method))
      @@ Member(~OmitEmpty("string", s.Type), "type", JStr(s.Type))
      @@ Member(~OmitEmpty("string", s.CnameTarget), "cname_target", JStr(s.CnameTarget))
      @@ Member(~OmitEmpty("string", s.CnameName), "cname", JStr(s.CnameName))
      @@ Member(~OmitEmpty("struct", s.Settings), "settings", MarshalSSLSettings(s.Settings)))

MarshalCustomHostname(ch) ==
    JObj(Member(~OmitEmpty("string", ch.ID), "id", JStr(ch.ID))
      @@ Member(~OmitEmpty("string", ch.Hostname), "hostname", JStr(ch.Hostname))
      @@ Member(~OmitEmpty("string", ch.CustomOriginServer), "custom_origin_server",
                JStr(ch.CustomOriginServer))
      @@ Member(~OmitEmpty("struct", ch.SSL), "ssl", MarshalSSL(ch.SSL))
      @@ Member(~OmitEmpty("map", ch.CustomMetadata), "custom_metadata", JObj(ch.CustomMetadata))
      @@ Member(~OmitEmpty("string", ch.Status), "status", JStr(ch.Status))
      @@ Member(~OmitEmpty("slice", ch.VerificationErrors), "verification_errors",
                JStrs(ch.VerificationErrors))
      @@ Member(~OmitEmpty("struct", ch.OwnershipVerification), "ownership_verification",
                MarshalOwnershipVerification(ch.OwnershipVerification)))

MarshalFallbackOrigin(f) ==
    JObj(Member(~OmitEmpty("string", f.Origin), "origin", JStr(f.Origin))
      @@ Member(~OmitEmpty("string", f.Status), "status", JStr(f.Status))
      @@ Member(~OmitEmpty("slice", f.Errors), "errors", JStrs(f.Errors)))

(***************************************************************************)
(* encoding/json, decoding into a fresh zero value.  An absent member and  *)
(* a null leave the field at its zero value, a member of the wrong JSON    *)
(* type is a type error, an unknown member is skipped.  A decoder returns  *)
(* [ok, val]; val is what the callers use, and they use it only when ok.   *)
(***************************************************************************)
Has(o, key) == key \in DOMAIN o

\* the member is absent, null, or of JSON type t
Fits(o, key, t) == ~Has(o, key) \/ o[key].t \in {"null", t}

Is(o, key, t) == Has(o, key) /\ o[key].t = t

StrOf(o, key) == IF Is(o, key, "str") THEN o[key].v ELSE <<>>

StrsFit(o, key) ==
    /\ Fits(o, key, "arr")
    /\ Is(o, key, "arr") => \A i \in 1..Len(o[key].v) : o[key].v[i].t \in {"null", "str"}

StrsOf(o, key) ==
    IF Is(o, key, "arr")
    THEN [i \in 1..Len(o[key].v) |-> IF o[key].v[i].t = "str" THEN o[key].v[i].v ELSE <<>>]
    ELSE <<>>

DecodeSSLSettings(o) ==
    [ok  |-> /\ Fits(o, "http2", "str") /\ Fits(o, "tls_1_3", "str")
             /\ Fits(o, "min_tls_version", "str") /\ StrsFit(o, "ciphers"),
     val |-> [HTTP2 |-> StrOf(o, "http2"), TLS13 |-> StrOf(o, "tls_1_3"),
              MinTLSVersion |-> StrOf(o, "min_tls_version"), Ciphers |-> StrsOf(o, "ciphers")]]

DecodeOwnershipVerification(o) ==
    [ok  |-> Fits(o, "type", "str") /\ Fits(o, "name", "str") /\ Fits(o, "value", "str"),
     val |-> [Type |-> StrOf(o, "type"), Name |-> StrOf(o, "name"), Value |-> StrOf(o, "value")]]

DecodeSSL(o) ==
    LET settings == IF Is(o, "settings", "obj") THEN DecodeSSLSettings(o["settings"].v)
                    ELSE [ok |-> Fits(o, "settings", "obj"), val |-> ZeroSSLSettings]
    IN [ok  |-> /\ Fits(o, "status", "str") /\ Fits(o, "method", "str") /\ Fits(o, "type", "str")
                /\ Fits(o, "cname_target", "str") /\ Fits(o, "cname", "str") /\ settings.ok,
        val |-> [Status |-> StrOf(o, "status"), Method |-> StrOf(o, "method"),
                 Type |-> StrOf(o, "type"), CnameTarget |-> StrOf(o, "cname_target"),
                 CnameName |-> StrOf(o, "cname"), Settings |-> settings.val]]

DecodeCustomHostname(o) ==
    LET ssl == IF Is(o, "ssl", "obj") THEN DecodeSSL(o["ssl"].v)
               ELSE [ok |-> Fits(o, "ssl", "obj"), val |-> ZeroSSL]
        ov  == IF Is(o, "ownership_verification", "obj")
               THEN DecodeOwnershipVerification(o["ownership_verification"].v)
               ELSE [ok |-> Fits(o, "ownership_verification", "obj"),
                     val |-> ZeroOwnershipVerification]
    IN [ok  |-> /\ Fits(o, "id", "str") /\ Fits(o, "hostname", "str")
                /\ Fits(o, "custom_origin_server", "str") /\ ssl.ok
                /\ Fits(o, "custom_metadata", "obj") /\ Fits(o, "status", "str")
                /\ StrsFit(o, "verification_errors") /\ ov.ok,
        val |-> [ID |-> StrOf(o, "id"), Hostname |-> StrOf(o, "hostname"),
                 CustomOriginServer |-> StrOf(o, "custom_origin_server"),
                 SSL |-> ssl.val,
                 CustomMetadata |-> IF Is(o, "custom_metadata", "obj")
                                    THEN o["custom_metadata"].v ELSE <<>>,
                 Status |-> StrOf(o, "status"),
                 VerificationErrors |-> StrsOf(o, "verification_errors"),
                 OwnershipVerification |-> ov.val]]

DecodeFallbackOrigin(o) ==
    [ok  |-> Fits(o, "origin", "str") /\ Fits(o, "status", "str") /\ StrsFit(o, "errors"),
     val |-> [Origin |-> StrOf(o, "origin"), Status |-> StrOf(o, "status"),
              Errors |-> StrsOf(o, "errors")]]

\* json.Unmarshal of a JSON value into a CustomHostname
UnmarshalCustomHostname(j) ==
    CASE j.t = "null" -> [ok |-> TRUE, val |-> ZeroCustomHostname]
      [] j.t = "obj"  -> DecodeCustomHostname(j.v)
      [] OTHER        -> [ok |-> FALSE, val |-> ZeroCustomHostname]

(***************************************************************************)
(* net/url: url.Values, QueryEscape and the parsing a server applies       *)
(***************************************************************************)
\* url.QueryEscape on one token: a space becomes "+", a reserved character
\* its percent-encoding, an unreserved token is unchanged
EscapeToken(c) ==
    CASE c = " " -> "+"
      [] c = "&" -> "%26"
      [] c = "=" -> "%3D"
      [] c = "+" -> "%2B"
      [] c = "?" -> "%3F"
      [] c = "/" -> "%2F"
      [] OTHER   -> c

QueryEscape(s) == [i \in 1..Len(s) |-> EscapeToken(s[i])]

UnescapeToken(c) ==
    CASE c = "+"   -> " "
      [] c = "%26" -> "&"
      [] c = "%3D" -> "="
      [] c = "%2B" -> "+"
      [] c = "%3F" -> "?"
      [] c = "%2F" -> "/"
      [] OTHER     -> c

QueryUnescape(s) == [i \in 1..Len(s) |-> UnescapeToken(s[i])]

\* url.Values.Set(key, value)
ValuesSet(v, key, value) == (key :> <<value>>) @@ v

\* the keys the client can set, in the sorted order Encode emits them
SortedKeys == <<"hostname", "page", "per_page">>

RECURSIVE EncodeFrom(_, _)
EncodeFrom(v, i) ==
    IF i > Len(SortedKeys) THEN <<>>
    ELSE LET key  == SortedKeys[i]
             rest == EncodeFrom(v, i + 1)
             here == IF key \in DOMAIN v
                     THEN <<EscapeToken(key), "=">> \o QueryEscape(v[key][1])
                     ELSE <<>>
         IN IF Len(here) > 0 /\ Len(rest) > 0 THEN here \o <<"&">> \o rest
            ELSE here \o rest

\* url.Values.Encode()
ValuesEncode(v) == EncodeFrom(v, 1)

\* the position of the first token c of s at or after position i, 0 if none
RECURSIVE IndexFrom(_, _, _)
IndexFrom(s, c, i) ==
    IF i > Len(s) THEN 0 ELSE IF s[i] = c THEN i ELSE IndexFrom(s, c, i + 1)

\* s split at every token c
RECURSIVE Split(_, _)
Split(s, c) ==
    LET i == IndexFrom(s, c, 1)
    IN IF i = 0 THEN <<s>> ELSE <<SubSeq(s, 1, i - 1)>> \o Split(SubSeq(s, i + 1, Len(s)), c)

\* url.ParseQuery: the sequence of [key, value] pairs of a query string
ParseQuery(q) ==
    LET parts == Split(q, "&")
        Pair(part) == LET i == IndexFrom(part, "=", 1)
                      IN IF i = 0 THEN [key |-> QueryUnescape(part), value |-> <<>>]
                         ELSE [key   |-> QueryUnescape(SubSeq(part, 1, i - 1)),
                               value |-> QueryUnescape(SubSeq(part, i + 1, Len(part)))]
    IN IF Len(q) = 0 THEN <<>> ELSE [i \in 1..Len(parts) |-> Pair(parts[i])]

\* the query string of a request path: what follows the first "?"
QueryOf(path) ==
    LET i == IndexFrom(path, "?", 1)
    IN IF i = 0 THEN <<>> ELSE SubSeq(path, i + 1, Len(path))

HasQuery(path) == IndexFrom(path, "?", 1) # 0

\* the values a parsed query holds for a key, in order
ValuesOf(pairs, key) ==
    LET hits == SelectSeq(pairs, LAMBDA p : p.key = <<key>>)
    IN [i \in 1..Len(hits) |-> hits[i].value]

(***************************************************************************)
(* Raw response bytes, pointers and slices                                 *)
(***************************************************************************)
\* bytes that are not JSON (the nil bytes of a failed dispatch included)
Garbage == [valid |-> FALSE, val |-> JNull]

\* the bytes of a JSON text
Text(j) == [valid |-> TRUE, val |-> j]

NilPtr == [nil |-> TRUE, val |-> <<>>]

Ptr(value) == [nil |-> FALSE, val |-> value]

NilSlice == [nil |-> TRUE, elems |-> <<>>]

Slice(elems) == [nil |-> FALSE, elems |-> elems]

JBool(b) == [t |-> "bool", v |-> IF b THEN <<"true">> ELSE <<"false">>]

\* the per_page value of the List query
PerPage == 50

(***************************************************************************)
(* Decoding the response envelopes (lines 66-76, 86-89)                    *)
(***************************************************************************)
ZeroResponse == [Result |-> ZeroCustomHostname, Success |-> FALSE]

ZeroFallbackResponse == [Result |-> ZeroFallbackOrigin, Success |-> FALSE]

ZeroListResponse == [Result |-> NilSlice, Success |-> FALSE, ResultInfo |-> ZeroResultInfo]

SuccessOf(o) == Is(o, "success", "bool") /\ o["success"].v = <<"true">>

\* json.Unmarshal(res, &response) for a CustomHostnameResponse; null says
\* the text was the literal null, which leaves a pointer target nil
UnmarshalResponse(res) ==
    IF ~res.valid THEN [ok |-> FALSE, null |-> FALSE, val |-> ZeroResponse]
    ELSE IF res.val.t = "null" THEN [ok |-> TRUE, null |-> TRUE, val |-> ZeroResponse]
    ELSE IF res.val.t # "obj" THEN [ok |-> FALSE, null |-> FALSE, val |-> ZeroResponse]
    ELSE LET o == res.val.v
             r == IF Is(o, "result", "obj") THEN DecodeCustomHostname(o["result"].v)
                  ELSE [ok |-> Fits(o, "result", "obj"), val |-> ZeroCustomHostname]
         IN [ok |-> r.ok /\ Fits(o, "success", "bool"), null |-> FALSE,
             val |-> [Result |-> r.val, Success |-> SuccessOf(o)]]

\* json.Unmarshal(res, &response) for a CustomHostnameFallbackOriginResponse
UnmarshalFallbackResponse(res) ==
    IF ~res.valid THEN [ok |-> FALSE, null |-> FALSE, val |-> ZeroFallbackResponse]
    ELSE IF res.val.t = "null" THEN [ok |-> TRUE, null |-> TRUE, val |-> ZeroFallbackResponse]
    ELSE IF res.val.t # "obj" THEN [ok |-> FALSE, null |-> FALSE, val |-> ZeroFallbackResponse]
    ELSE LET o == res.val.v
             r == IF Is(o, "result", "obj") THEN DecodeFallbackOrigin(o["result"].v)
                  ELSE [ok |-> Fits(o, "result", "obj"), val |-> ZeroFallbackOrigin]
         IN [ok |-> r.ok /\ Fits(o, "success", "bool"), null |-> FALSE,
             val |-> [Result |-> r.val, Success |-> SuccessOf(o)]]

IntOf(o, key) == IF Is(o, key, "num") THEN Atoi(o[key].v) ELSE 0

DecodeResultInfo(o) ==
    [ok  |-> /\ Fits(o, "page", "num") /\ Fits(o, "per_page", "num")
             /\ Fits(o, "total_pages", "num") /\ Fits(o, "count", "num")
             /\ Fits(o, "total_count", "num"),
     val |-> [Page |-> IntOf(o, "page"), PerPage |-> IntOf(o, "per_page"),
              TotalPages |-> IntOf(o, "total_pages"), Count |-> IntOf(o, "count"),
              TotalCount |-> IntOf(o, "total_count")]]

\* a JSON array decoded into a []CustomHostname
DecodeCustomHostnames(a) ==
    [ok  |-> \A i \in 1..Len(a) : UnmarshalCustomHostname(a[i]).ok,
     val |-> Slice([i \in 1..Len(a) |-> UnmarshalCustomHostname(a[i]).val])]

\* json.Unmarshal(res, &customHostnameListResponse)
UnmarshalListResponse(res) ==
    IF ~res.valid THEN [ok |-> FALSE, val |-> ZeroListResponse]
    ELSE IF res.val.t = "null" THEN [ok |-> TRUE, val |-> ZeroListResponse]
    ELSE IF res.val.t # "obj" THEN [ok |-> FALSE, val |-> ZeroListResponse]
    ELSE LET o    == res.val.v
             r    == IF Is(o, "result", "arr") THEN DecodeCustomHostnames(o["result"].v)
                     ELSE [ok |-> Fits(o, "result", "arr"), val |-> NilSlice]
             info == IF Is(o, "result_info", "obj") THEN DecodeResultInfo(o["result_info"].v)
                     ELSE [ok |-> Fits(o, "result_info", "obj"), val |-> ZeroResultInfo]
         IN [ok  |-> r.ok /\ info.ok /\ Fits(o, "success", "bool"),
             val |-> [Result |-> r.val, Success |-> SuccessOf(o), ResultInfo |-> info.val]]

\* the error json.Unmarshal returns
JSONError == <<"json: cannot unmarshal">>

(***************************************************************************)
(* The remote service and the request dispatcher api.makeRequest.  For one *)
(* call the service is env: err is the error the dispatcher returns (Nil   *)
(* when the dispatch succeeds); when paged, the service answers a list     *)
(* request from the pages of env.store, otherwise with the bytes env.body. *)
(***************************************************************************)
Rec(id, hostname) ==
    [ZeroCustomHostname EXCEPT !.ID = id, !.Hostname = hostname, !.Status = <<"active">>]

HostAB == <<"a", ".", "b">>

HostB == <<"b">>

ServerRecords == {Rec(<<"id1">>, HostAB), Rec(<<"id2">>, HostAB), Rec(<<"id3">>, HostB)}

\* the longest first page of an enumerated store
MaxPageLen == 2

SeqsUpTo(S, n) == UNION {[1..k -> S] : k \in 0..n}

\* n distinct records
Filler(n) == [i \in 1..n |-> Rec(<<"f">> \o Itoa(i), <<"h">> \o Itoa(i))]

Stores ==
    {<<p1, p2>> : p1 \in SeqsUpTo(ServerRecords, MaxPageLen),
                  p2 \in {<<>>, <<Rec(<<"id1">>, HostAB)>>}}
    \cup {<<Filler(PerPage)>>, <<Filler(PerPage + MaxOverflow)>>}

EmptyStore == <<<<>>, <<>>>>

PageOf(store, p) == IF p \in 1..Len(store) THEN store[p] ELSE <<>>

RECURSIVE TotalCount(_)
TotalCount(store) == IF Len(store) = 0 THEN 0 ELSE Len(Head(store)) + TotalCount(Tail(store))

Envelope(result) == JObj([success |-> JBool(TRUE), result |-> result])

ListEnvelope(store, p) ==
    LET items == PageOf(store, p)
    IN JObj([success |-> JBool(TRUE),
             result |-> JArr([i \in 1..Len(items) |-> MarshalCustomHostname(items[i])]),
             result_info |-> JObj([page |-> JNum(p), per_page |-> JNum(PerPage),
                                   count |-> JNum(Len(items)),
                                   total_count |-> JNum(TotalCount(store)),
                                   total_pages |-> JNum(Len(store))])])

IsDigit(c) == \E d \in 0..9 : Digit(d) = c

IsNumber(ds) ==
    LET body == IF Len(ds) > 0 /\ ds[1] = "-" THEN Tail(ds) ELSE ds
    IN Len(body) > 0 /\ \A i \in 1..Len(body) : IsDigit(body[i])

\* the page a list request asks for, as the service reads it off the path
RequestedPage(path) ==
    LET pages == ValuesOf(ParseQuery(QueryOf(path)), "page")
    IN IF Len(pages) > 0 /\ IsNumber(pages[1]) THEN Atoi(pages[1]) ELSE 1

\* the bytes a paged service answers with
Serve(store, method, path) ==
    IF method = "GET" /\ HasQuery(path) THEN Text(ListEnvelope(store, RequestedPage(path)))
    ELSE IF Len(PageOf(store, 1)) > 0 THEN Text(Envelope(MarshalCustomHostname(store[1][1])))
    ELSE Text(Envelope(JNull))

NoBody == [nil |-> TRUE, val |-> <<>>]

Body(params) == [nil |-> FALSE, val |-> params]

\* api.makeRequest(method, uri, params): the request handed over, and the
\* (bytes, error) the dispatcher returns
makeRequest(method, uri, params, env) ==
    [req |-> [method |-> method, path |-> uri, body |-> params],
     res |-> IF env.err # Nil THEN Garbage
             ELSE IF env.paged THEN Serve(env.store, method, uri)
             ELSE env.body,
     err |-> env.err]

(***************************************************************************)
(* The operations.  Each returns [ret, err, log]: the result, the error    *)
(* and the requests it handed to the dispatcher, in order.  A local value  *)
(* (call, dec) is bound as the element of a singleton set, which evaluates *)
(* it once.                                                                *)
(***************************************************************************)
Once(S) == CHOOSE r \in S : TRUE

\* UpdateCustomHostnameSSL sending PUT instead of PATCH
UpdateCustomHostnameSSL_Put(zoneID, customHostnameID, ssl, env) ==
    LET uri == <<"/zones/">> \o zoneID \o <<"/custom_hostnames/">> \o customHostnameID
        Decoded(call, dec) ==
            IF ~dec.ok
            THEN [ret |-> NilPtr, err |-> Wrap(JSONError, errUnmarshalError), log |-> <<call.req>>]
            ELSE [ret |-> IF dec.null THEN NilPtr ELSE Ptr(dec.val), err |-> Nil, log |-> <<call.req>>]
        Returned(call) ==
            IF call.err # Nil
            THEN [ret |-> NilPtr, err |-> Wrap(call.err, errMakeRequestError), log |-> <<call.req>>]
            ELSE Once({Decoded(call, dec) : dec \in {UnmarshalResponse(call.res)}})
    IN Once({Returned(call) : call \in {makeRequest("PUT", uri, Body(ssl), env)}})

UpdateCustomHostnameSSL(zoneID, customHostnameID, ssl, env) ==
    LET uri == <<"/zones/">> \o zoneID \o <<"/custom_hostnames/">> \o customHostnameID
        Decoded(call, dec) ==
            IF ~dec.ok
            THEN [ret |-> NilPtr, err |-> Wrap(JSONError, errUnmarshalError), log |-> <<call.req>>]
            ELSE [ret |-> IF dec.null THEN NilPtr ELSE Ptr(dec.val), err |-> Nil, log |-> <<call.req>>]
        Returned(call) ==
            IF call.err # Nil
            THEN [ret |-> NilPtr, err |-> Wrap(call.err, errMakeRequestError), log |-> <<call.req>>]
            ELSE Once({Decoded(call, dec) : dec \in {UnmarshalResponse(call.res)}})
    IN Once({Returned(call) : call \in {makeRequest("PATCH", uri, Body(ssl), env)}})

\* DeleteCustomHostname dropping the error of json.Unmarshal
DeleteCustomHostname_Swallow(zoneID, customHostnameID, env) ==
    LET uri == <<"/zones/">> \o zoneID \o <<"/custom_hostnames/">> \o customHostnameID
        Returned(call) ==
            IF call.err # Nil
            THEN [ret |-> NilPtr, err |-> Wrap(call.err, errMakeRequestError), log |-> <<call.req>>]
            ELSE [ret |-> NilPtr, err |-> Nil, log |-> <<call.req>>]
    IN Once({Returned(call) : call \in {makeRequest("DELETE", uri, NoBody, env)}})

DeleteCustomHostname(zoneID, customHostnameID, env) ==
    LET uri == <<"/zones/">> \o zoneID \o <<"/custom_hostnames/">> \o customHostnameID
        Decoded(call, dec) ==
            IF ~dec.ok
            THEN [ret |-> NilPtr, err |-> Wrap(JSONError, errUnmarshalError), log |-> <<call.req>>]
            ELSE [ret |-> NilPtr, err |-> Nil, log |-> <<call.req>>]
        Returned(call) ==
            IF call.err # Nil
            THEN [ret |-> NilPtr, err |-> Wrap(call.err, errMakeRequestError), log |-> <<call.req>>]
            ELSE Once({Decoded(call, dec) : dec \in {UnmarshalResponse(call.res)}})
    IN Once({Returned(call) : call \in {makeRequest("DELETE", uri, NoBody, env)}})

\* CreateCustomHostname dispatching a second time when the first dispatch fails
CreateCustomHostname_Retry(zoneID, ch, env) ==
    LET uri == <<"/zones/">> \o zoneID \o <<"/custom_hostnames">>
        Decoded(call, dec) ==
            IF ~dec.ok
            THEN [ret |-> NilPtr, err |-> Wrap(JSONError, errUnmarshalError), log |-> <<call.req>>]
            ELSE [ret |-> IF dec.null THEN NilPtr ELSE Ptr(dec.val), err |-> Nil, log |-> <<call.req>>]
        Returned(call) ==
            IF call.err # Nil
            THEN [ret |-> NilPtr, err |-> Wrap(call.err, errMakeRequestError),
                  log |-> <<call.req, call.req>>]
            ELSE Once({Decoded(call, dec) : dec \in {UnmarshalResponse(call.res)}})
    IN Once({Returned(call) : call \in {makeRequest("POST", uri, Body(ch), env)}})

CreateCustomHostname(zoneID, ch, env) ==
    LET uri == <<"/zones/">> \o zoneID \o <<"/custom_hostnames">>
        Decoded(call, dec) ==
            IF ~dec.ok
            THEN [ret |-> NilPtr, err |-> Wrap(JSONError, errUnmarshalError), log |-> <<call.req>>]
            ELSE [ret |-> IF dec.null THEN NilPtr ELSE Ptr(dec.val), err |-> Nil, log |-> <<call.req>>]
        Returned(call) ==
            IF call.err # Nil
            THEN [ret |-> NilPtr, err |-> Wrap(call.err, errMakeRequestError), log |-> <<call.req>>]
            ELSE Once({Decoded(call, dec) : dec \in {UnmarshalResponse(call.res)}})
    IN Once({Returned(call) : call \in {makeRequest("POST", uri, Body(ch), env)}})

\* ListValues setting hostname whether or not the filter has one
ListValues_HostnameAlways(page, filter) ==
    LET v0 == ValuesSet(<<>>, "per_page", Itoa(PerPage))
        v1 == ValuesSet(v0, "page", Itoa(page))
    IN ValuesSet(v1, "hostname", filter.Hostname)

\* the url.Values of lines 156-161
ListValues(page, filter) ==
    LET v0 == ValuesSet(<<>>, "per_page", Itoa(PerPage))
        v1 == ValuesSet(v0, "page", Itoa(page))
    IN IF filter.Hostname # <<>> THEN ValuesSet(v1, "hostname", filter.Hostname) ELSE v1

\* CustomHostnames returning a nil slice with an error
CustomHostnames_NilOnError(zoneID, page, filter, env) ==
    LET query == <<"?">> \o ValuesEncode(ListValues(page, filter))
        uri   == <<"/zones/">> \o zoneID \o <<"/custom_hostnames">> \o query
        Decoded(call, dec) ==
            IF ~dec.ok
            THEN [ret |-> [items |-> NilSlice, info |-> ZeroResultInfo],
                  err |-> Wrap(JSONError, errMakeRequestError), log |-> <<call.req>>]
            ELSE [ret |-> [items |-> dec.val.Result, info |-> dec.val.ResultInfo],
                  err |-> Nil, log |-> <<call.req>>]
        Returned(call) ==
            IF call.err # Nil
            THEN [ret |-> [items |-> NilSlice, info |-> ZeroResultInfo],
                  err |-> Wrap(call.err, errMakeRequestError), log |-> <<call.req>>]
            ELSE Once({Decoded(call, dec) : dec \in {UnmarshalListResponse(call.res)}})
    IN Once({Returned(call) : call \in {makeRequest("GET", uri, NoBody, env)}})

\* the first n elements of a slice
Truncated(slice, n) ==
    [slice EXCEPT !.elems = SubSeq(slice.elems, 1, IF Len(slice.elems) < n THEN Len(slice.elems) ELSE n)]

\* CustomHostnames cutting the result to per_page records
CustomHostnames_Truncating(zoneID, page, filter, env) ==
    LET query == <<"?">> \o ValuesEncode(ListValues(page, filter))
        uri   == <<"/zones/">> \o zoneID \o <<"/custom_hostnames">> \o query
        Decoded(call, dec) ==
            IF ~dec.ok
            THEN [ret |-> [items |-> Slice(<<>>), info |-> ZeroResultInfo],
                  err |-> Wrap(JSONError, errMakeRequestError), log |-> <<call.req>>]
            ELSE [ret |-> [items |-> Truncated(dec.val.Result, PerPage), info |-> dec.val.ResultInfo],
                  err |-> Nil, log |-> <<call.req>>]
        Returned(call) ==
            IF call.err # Nil
            THEN [ret |-> [items |-> Slice(<<>>), info |-> ZeroResultInfo],
                  err |-> Wrap(call.err, errMakeRequestError), log |-> <<call.req>>]
            ELSE Once({Decoded(call, dec) : dec \in {UnmarshalListResponse(call.res)}})
    IN Once({Returned(call) : call \in {makeRequest("GET", uri, NoBody, env)}})

CustomHostnames(zoneID, page, filter, env) ==
    LET query == <<"?">> \o ValuesEncode(ListValues(page, filter))
        uri   == <<"/zones/">> \o zoneID \o <<"/custom_hostnames">> \o query
        Decoded(call, dec) ==
            IF ~dec.ok
            THEN [ret |-> [items |-> Slice(<<>>), info |-> ZeroResultInfo],
                  err |-> Wrap(JSONError, errMakeRequestError), log |-> <<call.req>>]
            ELSE [ret |-> [items |-> dec.val.Result, info |-> dec.val.ResultInfo],
                  err |-> Nil, log |-> <<call.req>>]
        Returned(call) ==
            IF call.err # Nil
            THEN [ret |-> [items |-> Slice(<<>>), info |-> ZeroResultInfo],
                  err |-> Wrap(call.err, errMakeRequestError), log |-> <<call.req>>]
            ELSE Once({Decoded(call, dec) : dec \in {UnmarshalListResponse(call.res)}})
    IN Once({Returned(call) : call \in {makeRequest("GET", uri, NoBody, env)}})

CustomHostname(zoneID, customHostnameID, env) ==
    LET uri == <<"/zones/">> \o zoneID \o <<"/custom_hostnames/">> \o customHostnameID
        Decoded(call, dec) ==
            IF ~dec.ok
            THEN [ret |-> ZeroCustomHostname, err |-> Wrap(JSONError, errUnmarshalError), log |-> <<call.req>>]
            ELSE [ret |-> dec.val.Result, err |-> Nil, log |-> <<call.req>>]
        Returned(call) ==
            IF call.err # Nil
            THEN [ret |-> ZeroCustomHostname, err |-> Wrap(call.err, errMakeRequestError), log |-> <<call.req>>]
            ELSE Once({Decoded(call, dec) : dec \in {UnmarshalResponse(call.res)}})
    IN Once({Returned(call) : call \in {makeRequest("GET", uri, NoBody, env)}})

\* FirstMatch taking the first record whatever its hostname
FirstMatch_AnyHostname(customHostnames, hostname, i) ==
    IF i > Len(customHostnames) THEN 0 ELSE i

\* the index of the first record of a sequence with the hostname, 0 if none
RECURSIVE FirstMatch(_, _, _)
FirstMatch(customHostnames, hostname, i) ==
    IF i > Len(customHostnames) THEN 0
    ELSE IF customHostnames[i].Hostname = hostname THEN i
    ELSE FirstMatch(customHostnames, hostname, i + 1)

CustomHostnameIDByName(zoneID, hostname, env) ==
    LET Found(list, hit) ==
            IF hit # 0
            THEN [ret |-> list.ret.items.elems[hit].ID, err |-> Nil, log |-> list.log]
            ELSE [ret |-> <<>>, err |-> NewError("CustomHostname could not be found"),
                  log |-> list.log]
        Returned(list) ==
            IF list.err # Nil
            THEN [ret |-> <<>>, err |-> Wrap(list.err, "CustomHostnames command failed"),
                  log |-> list.log]
            ELSE Once({Found(list, hit) : hit \in {FirstMatch(list.ret.items.elems, hostname, 1)}})
    IN Once({Returned(list) :
             list \in {CustomHostnames(zoneID, 1,
                                       [ZeroCustomHostname EXCEPT !.Hostname = hostname], env)}})

UpdateCustomHostnameFallbackOrigin(zoneID, chfo, env) ==
    LET uri == <<"/zones/">> \o zoneID \o <<"/custom_hostnames/fallback_origin">>
        Decoded(call, dec) ==
            IF ~dec.ok
            THEN [ret |-> NilPtr, err |-> Wrap(JSONError, errUnmarshalError), log |-> <<call.req>>]
            ELSE [ret |-> IF dec.null THEN NilPtr ELSE Ptr(dec.val), err |-> Nil, log |-> <<call.req>>]
        Returned(call) ==
            IF call.err # Nil
            THEN [ret |-> NilPtr, err |-> Wrap(call.err, errMakeRequestError), log |-> <<call.req>>]
            ELSE Once({Decoded(call, dec) : dec \in {UnmarshalFallbackResponse(call.res)}})
    IN Once({Returned(call) : call \in {makeRequest("PUT", uri, Body(chfo), env)}})

CustomHostnameFallbackOrigin(zoneID, env) ==
    LET uri == <<"/zones/">> \o zoneID \o <<"/custom_hostnames/fallback_origin">>
        Decoded(call, dec) ==
            IF ~dec.ok
            THEN [ret |-> ZeroFallbackOrigin, err |-> Wrap(JSONError, errUnmarshalError), log |-> <<call.req>>]
            ELSE [ret |-> dec.val.Result, err |-> Nil, log |-> <<call.req>>]
        Returned(call) ==
            IF call.err # Nil
            THEN [ret |-> ZeroFallbackOrigin, err |-> Wrap(call.err, errMakeRequestError), log |-> <<call.req>>]
            ELSE Once({Decoded(call, dec) : dec \in {UnmarshalFallbackResponse(call.res)}})
    IN Once({Returned(call) : call \in {makeRequest("GET", uri, NoBody, env)}})

(***************************************************************************)
(* The inputs of the calls                                                 *)
(***************************************************************************)
\* zone IDs are passed through as they come: the empty one, and one with a
\* path separator in it
ZoneIDs == {<<>>, <<"z1", "/", "x">>}

HostnameIDs == {<<"id1">>, <<>>, <<"fallback_origin">>}

Hostnames == {<<>>, HostAB, HostB, <<"a", " ", "b">>, <<"x", "&", "page", "=", "9">>}

SSLPayloads == {ZeroSSL,
                [ZeroSSL EXCEPT !.Method = <<"http">>, !.Type = <<"dv">>,
                                !.Settings.MinTLSVersion = <<"1.2">>]}

Payloads == {ZeroCustomHostname,
             [ZeroCustomHostname EXCEPT !.Hostname = HostAB],
             [ZeroCustomHostname EXCEPT !.Hostname = HostB, !.SSL = [ZeroSSL EXCEPT !.Method = <<"http">>]]}

FallbackPayloads == {ZeroFallbackOrigin, [ZeroFallbackOrigin EXCEPT !.Origin = <<"origin.example">>]}

\* filters: a hostname, or other fields only
Filters == {[ZeroCustomHostname EXCEPT !.Hostname = h] : h \in Hostnames}
           \cup {[ZeroCustomHostname EXCEPT !.ID = <<"id1">>, !.Status = <<"active">>,
                                            !.CustomOriginServer = <<"o">>],
                 [ZeroCustomHostname EXCEPT !.ID = <<"id1">>, !.Hostname = HostAB,
                                            !.SSL.Method = <<"http">>]}

\* page numbers are not validated either: negative, zero, one and two digits
Pages == {0 - 1, 0, 1, 2, MaxPage}

FixedBodies ==
    {Garbage,
     Text(JNull),
     Text(JArr(<<>>)),
     Text(JObj(<<>>)),
     Text(Envelope(JStr(<<"oops">>))),
     Text(Envelope(JNull)),
     Text(Envelope(MarshalCustomHostname(ZeroCustomHostname))),
     Text(Envelope(MarshalCustomHostname(Rec(<<"id1">>, HostAB)))),
     Text(Envelope(MarshalFallbackOrigin([ZeroFallbackOrigin EXCEPT !.Origin = <<"o">>,
                                                                   !.Status = <<"active">>]))),
     Text(JObj([success |-> JBool(TRUE), result |-> JArr(<<>>)]))}

Envs ==
    {[err |-> <<"dispatch failed">>, paged |-> FALSE, body |-> Garbage, store |-> EmptyStore]}
    \cup {[err |-> Nil, paged |-> FALSE, body |-> b, store |-> EmptyStore] : b \in FixedBodies}
    \cup {[err |-> Nil, paged |-> TRUE, body |-> Garbage, store |-> st] : st \in Stores}

(***************************************************************************)
(* The calls: one action per public operation.  The client keeps no state  *)
(* between calls (no cache, no retry state, no counters), so a call's      *)
(* outcome is a function of its arguments and of the service's answer; a   *)
(* behaviour is one call made from the idle state.                         *)
(***************************************************************************)
CallCreate ==
    \E z \in ZoneIDs, ch \in Payloads, env \in Envs :
        \E r \in {CreateCustomHostname(z, ch, env)} :
           /\ op = "none"
           /\ op' = "Create"
           /\ args' = [zoneID |-> z, ch |-> ch]
           /\ reply' = env
           /\ log' = r.log
           /\ ret' = r.ret
           /\ err' = r.err
           /\ UNCHANGED wireVars

CallRead ==
    \E z \in ZoneIDs, id \in HostnameIDs, env \in Envs :
        \E r \in {CustomHostname(z, id, env)} :
           /\ op = "none"
           /\ op' = "Read"
           /\ args' = [zoneID |-> z, id |-> id]
           /\ reply' = env
           /\ log' = r.log
           /\ ret' = r.ret
           /\ err' = r.err
           /\ UNCHANGED wireVars

CallReadByName ==
    \E z \in ZoneIDs, h \in Hostnames, env \in Envs :
        \E r \in {CustomHostnameIDByName(z, h, env)} :
           /\ op = "none"
           /\ op' = "ReadByName"
           /\ args' = [zoneID |-> z, hostname |-> h]
           /\ reply' = env
           /\ log' = r.log
           /\ ret' = r.ret
           /\ err' = r.err
           /\ UNCHANGED wireVars

CallList ==
    \E z \in ZoneIDs, p \in Pages, f \in Filters, env \in Envs :
        \E r \in {CustomHostnames(z, p, f, env)} :
           /\ op = "none"
           /\ op' = "List"
           /\ args' = [zoneID |-> z, page |-> p, filter |-> f]
           /\ reply' = env
           /\ log' = r.log
           /\ ret' = r.ret
           /\ err' = r.err
           /\ UNCHANGED wireVars

CallUpdateSSL ==
    \E z \in ZoneIDs, id \in HostnameIDs, ssl \in SSLPayloads, env \in Envs :
        \E r \in {UpdateCustomHostnameSSL(z, id, ssl, env)} :
           /\ op = "none"
           /\ op' = "UpdateSSL"
           /\ args' = [zoneID |-> z, id |-> id, ssl |-> ssl]
           /\ reply' = env
           /\ log' = r.log
           /\ ret' = r.ret
           /\ err' = r.err
           /\ UNCHANGED wireVars

CallDelete ==
    \E z \in ZoneIDs, id \in HostnameIDs, env \in Envs :
        \E r \in {DeleteCustomHostname(z, id, env)} :
           /\ op = "none"
           /\ op' = "Delete"
           /\ args' = [zoneID |-> z, id |-> id]
           /\ reply' = env
           /\ log' = r.log
           /\ ret' = r.ret
           /\ err' = r.err
           /\ UNCHANGED wireVars

CallGetFallback ==
    \E z \in ZoneIDs, env \in Envs :
        \E r \in {CustomHostnameFallbackOrigin(z, env)} :
           /\ op = "none"
           /\ op' = "GetFallback"
           /\ args' = [zoneID |-> z]
           /\ reply' = env
           /\ log' = r.log
           /\ ret' = r.ret
           /\ err' = r.err
           /\ UNCHANGED wireVars

CallUpdateFallback ==
    \E z \in ZoneIDs, chfo \in FallbackPayloads, env \in Envs :
        \E r \in {UpdateCustomHostnameFallbackOrigin(z, chfo, env)} :
           /\ op = "none"
           /\ op' = "UpdateFallback"
           /\ args' = [zoneID |-> z, chfo |-> chfo]
           /\ reply' = env
           /\ log' = r.log
           /\ ret' = r.ret
           /\ err' = r.err
           /\ UNCHANGED wireVars

IdleEnv == [err |-> Nil, paged |-> FALSE, body |-> Garbage, store |-> EmptyStore]

NoCall ==
    /\ op = "none"
    /\ args = <<>>
    /\ reply = IdleEnv
    /\ log = <<>>
    /\ ret = <<>>
    /\ err = Nil

NoWire ==
    /\ wphase = "idle"
    /\ wdone = <<>>
    /\ wsrc = <<>>
    /\ wval = ZeroCustomHostname
    /\ wjson = JNull

Init == NoCall /\ NoWire

Next ==
    \/ CallCreate
    \/ CallRead
    \/ CallReadByName
    \/ CallList
    \/ CallUpdateSSL
    \/ CallDelete
    \/ CallGetFallback
    \/ CallUpdateFallback

Spec == Init /\ [][Next]_vars

(***************************************************************************)
(* The wire format of a CustomHostname on its own: a value is encoded, a   *)
(* JSON text decoded, alternately and at most MaxWireSteps times.          *)
(***************************************************************************)
MaxWireSteps == 2

WireValues ==
    {[ZeroCustomHostname EXCEPT !.ID = id, !.Hostname = h, !.SSL = ssl, !.CustomMetadata = m,
                                !.VerificationErrors = ve, !.OwnershipVerification = ov] :
        id \in {<<>>, <<"id1">>}, h \in {<<>>, HostAB},
        ssl \in {ZeroSSL, [ZeroSSL EXCEPT !.Method = <<"http">>],
                 [ZeroSSL EXCEPT !.Settings.Ciphers = <<<<"c1">>, <<"c2">>>>]},
        m \in {<<>>, [k |-> JStr(<<"v">>)]},
        ve \in {<<>>, <<<<"e">>>>},
        ov \in {ZeroOwnershipVerification, [ZeroOwnershipVerification EXCEPT !.Type = <<"txt">>]}}

WireTexts ==
    {JObj(<<>>),
     JNull,
     JObj([ssl |-> JNull, id |-> JNull]),
     JObj([ssl |-> JObj(<<>>)]),
     JObj([id |-> JStr(<<"id1">>), unknown |-> JStr(<<"x">>)]),
     JObj([id |-> JArr(<<>>)]),
     JStr(<<"id1">>)}
    \cup {MarshalCustomHostname(r) : r \in ServerRecords}

WireInit ==
    /\ NoCall
    /\ wdone = <<>>
    /\ \/ wphase = "value" /\ wval \in WireValues /\ wjson = JNull
       \/ wphase = "json" /\ wjson \in WireTexts /\ wval = ZeroCustomHostname
    /\ wsrc = [form |-> wphase, val |-> wval, json |-> wjson]

\* json.Marshal of the value
Encode ==
    /\ wphase = "value"
    /\ Len(wdone) < MaxWireSteps
    /\ wjson' = MarshalCustomHostname(wval)
    /\ wphase' = "json"
    /\ wdone' = Append(wdone, "encode")
    /\ UNCHANGED <<wsrc, wval, callVars>>

\* json.Unmarshal of the text into a zero CustomHostname
Decode ==
    /\ wphase = "json"
    /\ Len(wdone) < MaxWireSteps
    /\ wval' = UnmarshalCustomHostname(wjson).val
    /\ wphase' = IF UnmarshalCustomHostname(wjson).ok THEN "value" ELSE "error"
    /\ wdone' = Append(wdone, "decode")
    /\ UNCHANGED <<wsrc, wjson, callVars>>

WireNext == Encode \/ Decode

WireSpec == WireInit /\ [][WireNext]_vars

(***************************************************************************)
(* Properties                                                              *)
(***************************************************************************)
Called == op # "none"

DispatchFailed == reply.err # Nil

\* the bytes the dispatcher returned on a successful dispatch
Received == IF reply.paged THEN Serve(reply.store, log[1].method, log[1].path) ELSE reply.body

\* json.Unmarshal accepts the received bytes for the structure the operation expects
Decodes ==
    CASE op \in {"List", "ReadByName"} -> UnmarshalListResponse(Received).ok
      [] op \in {"GetFallback", "UpdateFallback"} -> UnmarshalFallbackResponse(Received).ok
      [] OTHER -> UnmarshalResponse(Received).ok

DecodeFailed == Called /\ ~DispatchFailed /\ ~Decodes

ItemPath == <<"/zones/">> \o args.zoneID \o <<"/custom_hostnames/">> \o args.id

CollectionPath == <<"/zones/">> \o args.zoneID \o <<"/custom_hostnames">>

FallbackPath == <<"/zones/">> \o args.zoneID \o <<"/custom_hostnames/fallback_origin">>

Request(method, path, body) == [method |-> method, path |-> path, body |-> body]

\* C1: every operation hands the dispatcher its (method, path, body) of the
\* table: POST collection + payload, GET item, PATCH item + SSL payload,
\* DELETE item, GET and PUT fallback_origin, GET collection + "?" + query;
\* zoneID and id go into the path as they are.
C1_WireCalls ==
    /\ op = "Create" => log[1] = Request("POST", CollectionPath, Body(args.ch))
    /\ op = "Read" => log[1] = Request("GET", ItemPath, NoBody)
    /\ op = "UpdateSSL" => log[1] = Request("PATCH", ItemPath, Body(args.ssl))
    /\ op = "Delete" => log[1] = Request("DELETE", ItemPath, NoBody)
    /\ op = "GetFallback" => log[1] = Request("GET", FallbackPath, NoBody)
    /\ op = "UpdateFallback" => log[1] = Request("PUT", FallbackPath, Body(args.chfo))
    /\ op = "List" =>
          /\ log[1].method = "GET"
          /\ log[1].body = NoBody
          /\ Len(log[1].path) > Len(CollectionPath)
          /\ SubSeq(log[1].path, 1, Len(CollectionPath) + 1) = CollectionPath \o <<"?">>

C1_Witness ==
    /\ op = "UpdateSSL"
    /\ args.zoneID = <<>>
    /\ args.id = <<"fallback_origin">>
    /\ args.ssl # ZeroSSL
    /\ log[1].method = "PATCH"

\* C2: every call of every public operation has invoked the dispatcher
\* exactly once when it returns, whatever the dispatch and the decoding did.
C2_OneDispatch == Called => Len(log) = 1

C2_Witness == op = "Create" /\ DispatchFailed /\ err # Nil /\ Len(log) = 1

\* C3: when the dispatcher returns an error every operation returns a
\* non-nil error, and every operation but Delete a zero result with it: a
\* nil response, an empty record, an empty ID, and for List an empty
\* non-nil sequence with empty pagination metadata.
C3_DispatchErrorZero ==
    (Called /\ DispatchFailed) =>
        /\ err # Nil
        /\ op \in {"Create", "UpdateSSL", "UpdateFallback"} => ret.nil
        /\ op = "Read" => ret = ZeroCustomHostname
        /\ op = "GetFallback" => ret = ZeroFallbackOrigin
        /\ op = "ReadByName" => ret = <<>>
        /\ op = "List" => /\ ~ret.items.nil
                          /\ Len(ret.items.elems) = 0
                          /\ ret.info = ZeroResultInfo

C3_Witness == op = "List" /\ DispatchFailed /\ err # Nil /\ ~ret.items.nil

\* C4 as stated: Delete reports success (a nil error) when the dispatch
\* succeeds and the response body cannot be decoded.
C4_DeleteSwallows == (op = "Delete" /\ DecodeFailed) => err = Nil

\* C4 as amended: Delete does not swallow a decode failure: after a
\* successful dispatch it returns a nil error exactly when the body
\* decodes, and otherwise the decode error wrapped with the decode-failure
\* message.
C4_DeleteReportsDecodeFailure ==
    (op = "Delete" /\ ~DispatchFailed) =>
        /\ (err = Nil) <=> Decodes
        /\ ~Decodes => err = <<errUnmarshalError>> \o JSONError

C4_Witness == op = "Delete" /\ ~DispatchFailed /\ ~reply.paged /\ ~reply.body.valid /\ err # Nil

\* the call repeated with a dispatcher that fails
FailingEnv == [err |-> <<"dispatch failed">>, paged |-> FALSE, body |-> Garbage, store |-> EmptyStore]

OnDispatchFailure ==
    CASE op = "Create" -> CreateCustomHostname(args.zoneID, args.ch, FailingEnv)
      [] op = "Read" -> CustomHostname(args.zoneID, args.id, FailingEnv)
      [] op = "ReadByName" -> CustomHostnameIDByName(args.zoneID, args.hostname, FailingEnv)
      [] op = "List" -> CustomHostnames(args.zoneID, args.page, args.filter, FailingEnv)
      [] op = "UpdateSSL" -> UpdateCustomHostnameSSL(args.zoneID, args.id, args.ssl, FailingEnv)
      [] op = "Delete" -> DeleteCustomHostname(args.zoneID, args.id, FailingEnv)
      [] op = "GetFallback" -> CustomHostnameFallbackOrigin(args.zoneID, FailingEnv)
      [] op = "UpdateFallback" ->
            UpdateCustomHostnameFallbackOrigin(args.zoneID, args.chfo, FailingEnv)

\* the contextual messages of an error: the chain without its cause
Context(e) == SubSeq(e, 1, Len(e) - 1)

\* C5: for every operation other than Delete, a decode failure after a
\* successful dispatch returns a non-nil error whose contextual message
\* differs from the one the same operation gives a dispatch failure.
C5_DecodeErrorDistinct ==
    (DecodeFailed /\ op # "Delete") =>
        /\ err # Nil
        /\ Context(err) # Context(OnDispatchFailure.err)

\* the parameters of the query string of the request, as a server parses them
SentQuery == ParseQuery(QueryOf(log[1].path))

NotFound == <<"CustomHostname could not be found">>

\* the records the service returns for page 1
FirstPage == IF reply.paged THEN PageOf(reply.store, 1) ELSE <<>>

MatchesOn(records) == {i \in 1..Len(records) : records[i].Hostname = args.hostname}

Least(S) == CHOOSE i \in S : \A j \in S : i <= j

\* C6: Read-by-name issues one List request, for page 1 with the hostname
\* as filter; it returns the ID of the first record of the returned page
\* whose hostname equals the name, the "not found" error when no record of
\* that page does (also when a record of page 2 does), and an empty ID
\* with a wrapped error when the List call fails.
C6_ReadByName ==
    op = "ReadByName" =>
        /\ Len(log) = 1
        /\ ValuesOf(SentQuery, "page") = <<<<"1">>>>
        /\ ValuesOf(SentQuery, "hostname")
              = IF args.hostname = <<>> THEN <<>> ELSE <<args.hostname>>
        /\ (DispatchFailed \/ ~Decodes) =>
              /\ ret = <<>>
              /\ Len(err) > 1
              /\ Head(err) = "CustomHostnames command failed"
        /\ (~DispatchFailed /\ Decodes /\ MatchesOn(FirstPage) # {}) =>
              /\ err = Nil
              /\ ret = FirstPage[Least(MatchesOn(FirstPage))].ID
        /\ (~DispatchFailed /\ Decodes /\ MatchesOn(FirstPage) = {}) =>
              /\ err = NotFound
              /\ ret = <<>>

C6_Witness ==
    /\ op = "ReadByName"
    /\ reply.paged
    /\ Len(reply.store) = 2
    /\ MatchesOn(PageOf(reply.store, 1)) = {}
    /\ MatchesOn(PageOf(reply.store, 2)) # {}
    /\ err = NotFound

QueryKeys == {<<"per_page">>, <<"page">>, <<"hostname">>}

\* C7: the query string of List holds per_page once with the value 50,
\* page once with the decimal rendering of the page argument, hostname once
\* (URL-encoded) exactly when the filter's hostname is non-empty, and no
\* other parameter.
C7_ListQuery ==
    op = "List" =>
        /\ ValuesOf(SentQuery, "per_page") = <<<<"5", "0">>>>
        /\ Len(ValuesOf(SentQuery, "page")) = 1
        /\ IsNumber(ValuesOf(SentQuery, "page")[1])
        /\ Atoi(ValuesOf(SentQuery, "page")[1]) = args.page
        /\ ValuesOf(SentQuery, "hostname")
              = IF args.filter.Hostname = <<>> THEN <<>> ELSE <<args.filter.Hostname>>
        /\ \A i \in 1..Len(SentQuery) : SentQuery[i].key \in QueryKeys
        /\ Len(SentQuery) = IF args.filter.Hostname = <<>> THEN 2 ELSE 3

C7_Witness ==
    /\ op = "List"
    /\ args.filter.Hostname = <<"x", "&", "page", "=", "9">>
    /\ args.page = 2
    /\ Len(SentQuery) = 3

\* C8 as stated: for any page >= 1 and any response, the sequence List
\* returns has at most 50 elements.
C8_AtMostPerPage == (op = "List" /\ args.page >= 1) => Len(ret.items.elems) <= PerPage

\* C8 as amended: List returns the records of the response as they are, all
\* of them and in their order; its result has at most 50 elements exactly
\* when the response has.
C8_ListReturnsResponse ==
    (op = "List" /\ ~DispatchFailed /\ reply.paged) =>
        /\ err = Nil
        /\ ret.items.elems = PageOf(reply.store, args.page)
        /\ (Len(ret.items.elems) <= PerPage) <=> (Len(PageOf(reply.store, args.page)) <= PerPage)

C8_Witness == op = "List" /\ args.page = 1 /\ err = Nil /\ Len(ret.items.elems) > PerPage

EmptyObject == JObj(<<>>)

\* C9: a CustomHostname with every optional field empty is encoded as a
\* JSON object without any of the fields (ssl, ssl.settings and
\* ownership_verification included), an object without them decodes to the
\* zero CustomHostname, and so encoding then decoding, and decoding then
\* encoding, give back the empty record.
C9_EmptyRoundTrip ==
    /\ (wsrc.form = "value" /\ wsrc.val = ZeroCustomHostname /\ Len(wdone) >= 1) =>
          wjson = EmptyObject
    /\ (wsrc.form = "value" /\ wsrc.val = ZeroCustomHostname /\ Len(wdone) = 2) =>
          wphase = "value" /\ wval = ZeroCustomHostname
    /\ (wsrc.form = "json" /\ wsrc.json = EmptyObject /\ Len(wdone) >= 1) =>
          wphase # "error" /\ wval = ZeroCustomHostname
    /\ (wsrc.form = "json" /\ wsrc.json = EmptyObject /\ Len(wdone) = 2) =>
          wjson = EmptyObject

\* C10: Create, Update-SSL and Update-fallback-origin return exactly one of
\* a non-nil response and a non-nil error, for every dispatcher outcome and
\* every body, the JSON literal null included.
C10_ResponseXorError ==
    op \in {"Create", "UpdateSSL", "UpdateFallback"} => (ret.nil <=> err # Nil)

====
